---- MODULE Spec2Model ----
(***************************************************************************)
(* Model of the planet simulation of src/src/main.ts: the global `planets` *)
(* array, the time step `dt`, the pause flag, and the event handlers       *)
(* (animate, spawn, spawnSolarSystem, deletePlanets, reset, deltaTime      *)
(* input, play/pause).  Every handler is one atomic action, because the    *)
(* page's JavaScript runs each handler to completion on a single thread.   *)
(*                                                                         *)
(* Numbers.  A JavaScript number is modelled as an integer or one of the   *)
(* three non-finite values NaN, Infinity, -Infinity, with IEEE-754 rules   *)
(* for the non-finite cases (x/0, 0/0, Inf-Inf, comparisons with NaN).     *)
(* Finite arithmetic is exact integer arithmetic; a finite quotient is     *)
(* truncated toward zero and a square root is rounded up, so that          *)
(* `Math.sqrt(d2) <= r` for an integer r is decided exactly.  Negative     *)
(* zero is not distinguished from zero.  The physical constants are        *)
(* rescaled so that every value fits a 32-bit integer: length unit 1e8 m   *)
(* (distanceScale = 10 units per pixel), time unit one day (dt = 1).       *)
(*                                                                         *)
(* Object identity.  `planets.indexOf(this)` and `other !== this` compare  *)
(* references.  Inside a tick every Planet object has an id (its index in  *)
(* the heap `obj`); between handlers only the objects in `planets` are     *)
(* reachable, so the state keeps the array of their field records.         *)
(* `name` and `color` are used for drawing and log text only and are       *)
(* left out of the records.                                                *)
(***************************************************************************)
EXTENDS Integers, Sequences, FiniteSets, TLC

VARIABLES planets, dt, isPaused, animating, log, threw, tick, ticks, spawned

vars == <<planets, dt, isPaused, animating, log, threw, tick, ticks, spawned>>

(***************************************************************************)
(* Bounds of the model.                                                    *)
(***************************************************************************)
MaxSpawns == 5
MaxTicks == 1
MaxTrailSpawns == 2
MaxTrailTicks == 6

(***************************************************************************)
(* JavaScript numbers.                                                     *)
(***************************************************************************)
PosInf == 100000000
NegInf == 0 - PosInf
NaN == 200000000

IsNaN(v) == v = NaN
IsFinite(v) == v # NaN /\ v # PosInf /\ v # NegInf

Abs(v) == IF v < 0 THEN 0 - v ELSE v
Sign(v) == IF v < 0 THEN 0 - 1 ELSE IF v > 0 THEN 1 ELSE 0
SignedInf(s) == IF s < 0 THEN NegInf ELSE PosInf

Neg(a) ==
    IF IsNaN(a) THEN NaN
    ELSE IF a = PosInf THEN NegInf
    ELSE IF a = NegInf THEN PosInf
    ELSE 0 - a

Add(a, b) ==
    IF IsNaN(a) \/ IsNaN(b) THEN NaN
    ELSE IF ~IsFinite(a) /\ ~IsFinite(b) THEN (IF a = b THEN a ELSE NaN)
    ELSE IF ~IsFinite(a) THEN a
    ELSE IF ~IsFinite(b) THEN b
    ELSE a + b

Sub(a, b) == Add(a, Neg(b))

Mul(a, b) ==
    IF IsNaN(a) \/ IsNaN(b) THEN NaN
    ELSE IF IsFinite(a) /\ IsFinite(b) THEN a * b
    ELSE IF a = 0 \/ b = 0 THEN NaN
    ELSE SignedInf(Sign(a) * Sign(b))

Div(a, b) ==
    IF IsNaN(a) \/ IsNaN(b) THEN NaN
    ELSE IF ~IsFinite(a) /\ ~IsFinite(b) THEN NaN
    ELSE IF ~IsFinite(a) THEN SignedInf(Sign(a) * (IF b < 0 THEN 0 - 1 ELSE 1))
    ELSE IF ~IsFinite(b) THEN 0
    ELSE IF b = 0 THEN (IF a = 0 THEN NaN ELSE SignedInf(Sign(a)))
    ELSE Sign(a) * Sign(b) * (Abs(a) \div Abs(b))

\* a <= b and a > b of JavaScript: false as soon as one side is NaN
Leq(a, b) == ~IsNaN(a) /\ ~IsNaN(b) /\ a <= b
Gt(a, b) == ~IsNaN(a) /\ ~IsNaN(b) /\ a > b

\* Math.max
MathMax(a, b) == IF IsNaN(a) \/ IsNaN(b) THEN NaN ELSE IF a >= b THEN a ELSE b

\* Math.sqrt, rounded up to the next integer (the least k with k*k >= a)
RECURSIVE SqrtSearch(_, _, _)
SqrtSearch(lo, hi, a) ==
    IF lo >= hi THEN lo
    ELSE LET mid == (lo + hi) \div 2
         IN  IF mid * mid >= a THEN SqrtSearch(lo, mid, a) ELSE SqrtSearch(mid + 1, hi, a)

MathSqrt(a) ==
    IF IsNaN(a) THEN NaN
    ELSE IF a = PosInf THEN PosInf
    ELSE IF a < 0 THEN NaN
    ELSE SqrtSearch(0, IF a < 46340 THEN a ELSE 46340, a)

(***************************************************************************)
(* Program constants (rescaled, see the header).                           *)
(* A trail entry's life is counted in units of fadeSpeed, and the full     *)
(* life is 4 of them where the program has 1.0 / 0.005 = 200.              *)
(***************************************************************************)
G == 1000
DtDefault == 1
DistanceScale == 10
MinDistance == 1
DeleteTolerance == 10
LifeFull == 4
FadeSpeed == 1
CanvasWidth == 200
CanvasHeight == 200

(***************************************************************************)
(* parseFloat on the text of an input element.  A text is a sequence of    *)
(* characters; parseFloat skips leading blanks, reads an optional sign and *)
(* the longest run of digits, ignores whatever follows, and yields NaN     *)
(* when there is no digit to read.  (The inputs of the model hold no       *)
(* fraction or exponent.)                                                  *)
(***************************************************************************)
Digits == <<"0", "1", "2", "3", "4", "5", "6", "7", "8", "9">>
IsDigit(c) == \E d \in 1..10 : Digits[d] = c
DigitVal(c) == (CHOOSE d \in 1..10 : Digits[d] = c) - 1

RECURSIVE SkipBlanks(_)
SkipBlanks(s) == IF s # <<>> /\ Head(s) = " " THEN SkipBlanks(Tail(s)) ELSE s

RECURSIVE ReadDigits(_, _)
ReadDigits(s, acc) ==
    IF s # <<>> /\ IsDigit(Head(s))
    THEN ReadDigits(Tail(s), 10 * acc + DigitVal(Head(s)))
    ELSE acc

ParseFloat(text) ==
    LET s == SkipBlanks(text)
        signed == s # <<>> /\ Head(s) \in {"-", "+"}
        body == IF signed THEN Tail(s) ELSE s
    IN  IF body = <<>> \/ ~IsDigit(Head(body)) THEN NaN
        ELSE IF signed /\ Head(s) = "-" THEN 0 - ReadDigits(body, 0)
        ELSE ReadDigits(body, 0)

(***************************************************************************)
(* Planet objects.                                                         *)
(***************************************************************************)
\* new Planet(x, y, radius, color, mass, velocity, name)
Planet(x, y, radius, mass, velocity) ==
    [x |-> x, y |-> y, radius |-> radius, mass |-> mass, velocity |-> velocity,
     trail |-> <<>>]

\* getDist(p1, p2)
GetDist(p1, p2) ==
    LET dx == Sub(p1.x, p2.x)
        dy == Sub(p1.y, p2.y)
    IN  MathSqrt(Add(Mul(dx, dx), Mul(dy, dy)))

\* planets.reduce((max, p) => (p.mass > max.mass ? p : max), planets[0]):
\* the index of the result in ps, 0 for undefined (ps is empty)
RECURSIVE ReduceMax(_, _, _)
ReduceMax(ps, k, max) ==
    IF k > Len(ps) THEN max
    ELSE ReduceMax(ps, k + 1, IF Gt(ps[k].mass, ps[max].mass) THEN k ELSE max)

GetMostMassivePlanet(ps) == IF ps = <<>> THEN 0 ELSE ReduceMax(ps, 1, 1)

\* Planet.getPosition(): the canvas position of body p of the array ps
GetPosition(p, ps) ==
    LET centerPlanet == ps[GetMostMassivePlanet(ps)]
        relativeX == Div(Sub(p.x, centerPlanet.x), DistanceScale)
        relativeY == Div(Sub(p.y, centerPlanet.y), DistanceScale)
    IN  [x |-> Add(CanvasWidth \div 2, relativeX), y |-> Add(CanvasHeight \div 2, relativeY)]

\* Array.prototype.splice(start, deleteCount, ...items) with a 0-based start
Splice(arr, start, deleteCount, items) ==
    LET from == IF start > Len(arr) THEN Len(arr) ELSE start
        cnt == IF deleteCount > Len(arr) - from THEN Len(arr) - from ELSE deleteCount
    IN  SubSeq(arr, 1, from) \o items \o SubSeq(arr, from + cnt + 1, Len(arr))

\* Array.prototype.indexOf: 0-based, -1 when absent
IndexOf(arr, e) ==
    IF \E k \in 1..Len(arr) : arr[k] = e
    THEN (CHOOSE k \in 1..Len(arr) : arr[k] = e /\ \A j \in 1..(k - 1) : arr[j] # e) - 1
    ELSE 0 - 1

(***************************************************************************)
(* One tick.  The world of a running tick: `planets` is the array (of      *)
(* object ids), `obj` the objects by id (those spliced out of the array    *)
(* stay reachable through `this` and keep being updated), `trace` the      *)
(* calls made so far, `log` the messages written.                          *)
(***************************************************************************)
\* cos(atan2(dy, dx)) * force and sin(atan2(dy, dx)) * force
Direction(dx, dy, force) ==
    IF IsNaN(dx) \/ IsNaN(dy) \/ IsNaN(force) THEN [x |-> NaN, y |-> NaN]
    ELSE IF ~IsFinite(dx) \/ ~IsFinite(dy) THEN [x |-> Mul(force, 0), y |-> Mul(force, 0)]
    ELSE LET hyp == MathSqrt(dx * dx + dy * dy)
         IN  IF hyp = 0 THEN [x |-> force, y |-> 0]
             ELSE [x |-> Div(Mul(force, dx), hyp), y |-> Div(Mul(force, dy), hyp)]

\* Planet.applyGravity(other): the velocity of `this` afterwards
GravityVelocity(this, other, d) ==
    LET dx == Sub(other.x, this.x)
        dy == Sub(other.y, this.y)
        distance == MathMax(MathSqrt(Add(Mul(dx, dx), Mul(dy, dy))), MinDistance)
        force == Div(Mul(Mul(G, this.mass), other.mass), Mul(distance, distance))
        f == Direction(dx, dy, force)
    IN  [x |-> Add(this.velocity.x, Mul(Div(f.x, this.mass), d)),
         y |-> Add(this.velocity.y, Mul(Div(f.y, this.mass), d))]

ApplyGravity(w, this, other, d) ==
    [w EXCEPT !.obj[this].velocity = GravityVelocity(w.obj[this], w.obj[other], d),
              !.trace = Append(@, [type |-> "gravity", this |-> this, other |-> other])]

\* the distance test of Planet.checkCollision(other)
Collides(this, other) ==
    LET dx == Sub(other.x, this.x)
        dy == Sub(other.y, this.y)
        distance == MathSqrt(Add(Mul(dx, dx), Mul(dy, dy)))
    IN  Leq(distance, Mul(Add(this.radius, other.radius), DistanceScale))

\* the fused planet Planet.checkCollision(other) constructs
FusedPlanet(this, other) ==
    LET newMass == Add(this.mass, other.mass)
        newRadius == MathSqrt(Add(Mul(this.radius, this.radius), Mul(other.radius, other.radius)))
        newVelocity ==
            [x |-> Div(Add(Mul(this.velocity.x, this.mass), Mul(other.velocity.x, other.mass)), newMass),
             y |-> Div(Add(Mul(this.velocity.y, this.mass), Mul(other.velocity.y, other.mass)), newMass)]
        newX == Div(Add(Mul(this.x, this.mass), Mul(other.x, other.mass)), newMass)
        newY == Div(Add(Mul(this.y, this.mass), Mul(other.y, other.mass)), newMass)
    IN  Planet(newX, newY, newRadius, newMass, newVelocity)

\* the two splices that end Planet.checkCollision(other)
MergeSplice(arr, this, other, fused) ==
    LET indexThis == IndexOf(arr, this)
        indexOther == IndexOf(arr, other)
        arr1 == IF indexOther > 0 - 1 THEN Splice(arr, indexOther, 1, <<>>) ELSE arr
    IN  IF indexThis > 0 - 1 THEN Splice(arr1, indexThis, 1, <<fused>>) ELSE arr1

CheckCollision(w, this, other) ==
    IF Collides(w.obj[this], w.obj[other])
    THEN LET fused == Len(w.obj) + 1
             after == MergeSplice(w.planets, this, other, fused)
         IN  [w EXCEPT !.obj = Append(@, FusedPlanet(w.obj[this], w.obj[other])),
                       !.planets = after,
                       !.log = @ \o <<"kollidiert und fusioniert", "Neuer Planet">>,
                       !.trace = Append(@, [type |-> "merge", this |-> this, other |-> other,
                                            fused |-> fused, before |-> w.planets,
                                            after |-> after, a |-> w.obj[this],
                                            b |-> w.obj[other],
                                            c |-> FusedPlanet(w.obj[this], w.obj[other])])]
    ELSE w

\* the for...of loop of Planet.update(): k is the array iterator's next index
RECURSIVE UpdateLoop(_, _, _, _)
UpdateLoop(w, this, k, d) ==
    IF k >= Len(w.planets) THEN w
    ELSE LET other == w.planets[k + 1]
         IN  IF other # this
             THEN UpdateLoop(CheckCollision(ApplyGravity(w, this, other, d), this, other), this, k + 1, d)
             ELSE UpdateLoop(w, this, k + 1, d)

\* the trail part of Planet.update()
RECURSIVE ShiftDead(_)
ShiftDead(trail) ==
    IF trail # <<>> /\ Leq(Head(trail).life, 0) THEN ShiftDead(Tail(trail)) ELSE trail

\* the trail part without the loop that shifts the obsolete entries out
UpdateTrailNoShift(trail, x, y) ==
    LET pushed == Append(trail, [x |-> x, y |-> y, life |-> LifeFull])
    IN  [i \in 1..Len(pushed) |-> [pushed[i] EXCEPT !.life = @ - FadeSpeed]]

UpdateTrail(trail, x, y) ==
    LET pushed == Append(trail, [x |-> x, y |-> y, life |-> LifeFull])
    IN  ShiftDead([i \in 1..Len(pushed) |-> [pushed[i] EXCEPT !.life = @ - FadeSpeed]])

\* the position part of Planet.update()
Integrate(p, d) ==
    [p EXCEPT !.x = Add(p.x, Mul(p.velocity.x, d)), !.y = Add(p.y, Mul(p.velocity.y, d))]

\* Planet.update(): the statements that follow the for...of loop, on the
\* world w1 the loop has left
Advance(w1, this, d) ==
    LET moved == Integrate(w1.obj[this], d)
    IN  [w1 EXCEPT !.obj[this] = [moved EXCEPT !.trail = UpdateTrail(@, moved.x, moved.y)],
                   !.trace = Append(@, [type |-> "integrate", this |-> this,
                                        from |-> [x |-> w1.obj[this].x, y |-> w1.obj[this].y],
                                        velocity |-> w1.obj[this].velocity,
                                        to |-> [x |-> moved.x, y |-> moved.y],
                                        trailBefore |-> w1.obj[this].trail,
                                        trail |-> UpdateTrail(moved.trail, moved.x, moved.y)])]

\* Planet.update()
Update(w, this, d) == Advance(UpdateLoop(w, this, 0, d), this, d)

\* the loop of animate(): planets[i].update(); planets[i].draw().  After the
\* update planets[i] is read again; when the array has shrunk to i elements or
\* fewer it is undefined and the call of draw raises a TypeError.
RECURSIVE AnimateLoop(_, _, _)
RECURSIVE Draw(_, _, _)
AnimateLoop(w, i, d) ==
    IF i >= Len(w.planets) THEN w
    ELSE Draw(Update(w, w.planets[i + 1], d), i, d)

\* planets[i].draw() on the world w1 that planets[i].update() has left, and
\* the rest of the loop
Draw(w1, i, d) ==
    IF i >= Len(w1.planets) THEN [w1 EXCEPT !.threw = TRUE]
    ELSE AnimateLoop(w1, i + 1, d)

\* `tick` when the last handler was no frame callback, and when it was a frame
\* callback that found the simulation paused
NoTick == [frame |-> FALSE, ran |-> FALSE, trace |-> <<>>, final |-> <<>>]
SkippedTick == [frame |-> TRUE, ran |-> FALSE, trace |-> <<>>, final |-> <<>>]

\* one tick over the array ps with time step d
\* what a tick that ended in the world w leaves to the handlers after it
TickResult(w) ==
    [planets |-> [i \in 1..Len(w.planets) |-> w.obj[w.planets[i]]],
     threw |-> w.threw, log |-> w.log,
     tick |-> [frame |-> TRUE, ran |-> TRUE, trace |-> w.trace, final |-> w.planets]]

RunTick(ps, d) ==
    TickResult(AnimateLoop([planets |-> [i \in 1..Len(ps) |-> i], obj |-> ps,
                            trace |-> <<>>, log |-> <<>>, threw |-> FALSE], 0, d))

\* animate() without the test of isPaused
AnimateFrameNoPauseTest(ps, paused, d) == RunTick(ps, d)

\* animate(): the body of the frame callback
AnimateFrame(ps, paused, d) ==
    IF ~paused THEN RunTick(ps, d)
    ELSE [planets |-> ps, threw |-> FALSE, log |-> <<>>, tick |-> SkippedTick]

(***************************************************************************)
(* deletePlanets(x, y).  After planets.splice(i, 1) the log line reads     *)
(* planets[i].name: planets[i] is then the element that followed the       *)
(* removed one, and undefined when the removed one was the last, in which  *)
(* case the property access raises a TypeError and the loop is abandoned.  *)
(***************************************************************************)
RECURSIVE DeleteLoop(_, _, _, _)
DeleteLoop(ps, i, point, msgs) ==
    IF i < 0 THEN [planets |-> ps, threw |-> FALSE, log |-> msgs]
    ELSE LET distance == GetDist(point, GetPosition(ps[i + 1], ps))
         IN  IF Leq(distance, Add(ps[i + 1].radius, DeleteTolerance))
             THEN LET ps1 == Splice(ps, i, 1, <<>>)
                  IN  IF i >= Len(ps1) THEN [planets |-> ps1, threw |-> TRUE, log |-> msgs]
                      ELSE DeleteLoop(ps1, i - 1, point, Append(msgs, "Deleted planet"))
             ELSE DeleteLoop(ps, i - 1, point, msgs)

DeletePlanets(ps, point) == DeleteLoop(ps, Len(ps) - 1, point, <<>>)

(***************************************************************************)
(* spawnSolarSystem(): the literal bodies, in the model's units.           *)
(***************************************************************************)
SolarSystem ==
    << Planet(0, 0, 20, 1000, [x |-> 9, y |-> 0]),
       Planet(579, 0, 2, 1, [x |-> 0, y |-> 41]),
       Planet(1082, 0, 5, 5, [x |-> 0, y |-> 30]),
       Planet(1496, 0, 5, 6, [x |-> 0, y |-> 26]),
       Planet(2279, 0, 3, 1, [x |-> 0, y |-> 21]) >>

(***************************************************************************)
(* The spawn button.  A request is the text of the five input elements.    *)
(***************************************************************************)
Fields == {"mass", "radius", "velocityX", "velocityY", "distance"}

Req(mass, radius, velocityX, velocityY, distance) ==
    [mass |-> mass, radius |-> radius, velocityX |-> velocityX, velocityY |-> velocityY,
     distance |-> distance]

\* the requests a user makes in the model: two numeric ones (a body of mass 2
\* moving right, 3 pixels right of the anchor; a body of mass -2 on the anchor)
NumericRequests ==
    { Req(<<"2">>, <<"1">>, <<"2", "0">>, <<"0">>, <<"3">>),
      Req(<<"-", "2">>, <<"1">>, <<"0">>, <<"1">>, <<"0">>) }

\* ... and, for each field, the first of them with that field not a number
BadText(f) ==
    CASE f = "mass" -> <<"a", "b">>
      [] f = "radius" -> <<>>
      [] f = "velocityX" -> <<"-">>
      [] f = "velocityY" -> <<" ">>
      [] f = "distance" -> <<"x", "3">>

BadRequests ==
    { [Req(<<"2">>, <<"1">>, <<"2", "0">>, <<"0">>, <<"3">>) EXCEPT ![f] = BadText(f)] :
        f \in Fields }

\* the test of the spawn listener without isNaN(distancePx)
InvalidInputNoDistance(mass, radius, velocityX, velocityY, distancePx) ==
    IsNaN(mass) \/ IsNaN(radius) \/ IsNaN(velocityX) \/ IsNaN(velocityY)

\* isNaN(mass) || isNaN(radius) || isNaN(velocityX) || isNaN(velocityY) || isNaN(distancePx)
InvalidInput(mass, radius, velocityX, velocityY, distancePx) ==
    IsNaN(mass) \/ IsNaN(radius) \/ IsNaN(velocityX) \/ IsNaN(velocityY) \/ IsNaN(distancePx)

\* the click listener of the spawn button on the array ps
SpawnPlanet(ps, req) ==
    LET mass == ParseFloat(req.mass)
        radius == ParseFloat(req.radius)
        velocityX == ParseFloat(req.velocityX)
        velocityY == ParseFloat(req.velocityY)
        distancePx == ParseFloat(req.distance)
        centerPlanet == GetMostMassivePlanet(ps)
        distanceFromCenter == Mul(distancePx, DistanceScale)
        posX == IF centerPlanet # 0 THEN Add(ps[centerPlanet].x, distanceFromCenter)
                ELSE Add(CanvasWidth \div 2, distanceFromCenter)
        posY == IF centerPlanet # 0 THEN ps[centerPlanet].y ELSE CanvasHeight \div 2
    IN  IF InvalidInput(mass, radius, velocityX, velocityY, distancePx)
        THEN [planets |-> ps, log |-> <<"Invalid input! Please enter valid numbers.">>]
        ELSE [planets |-> Append(ps, Planet(posX, posY, radius, mass,
                                            [x |-> velocityX, y |-> velocityY])),
              log |-> IF centerPlanet # 0 THEN <<"Spawned planet">>
                      ELSE <<"Spawned new Center Planet.">>]

(***************************************************************************)
(* The state machine.                                                      *)
(***************************************************************************)
ClickPoints == { [x |-> 100, y |-> 100], [x |-> 327, y |-> 100] }
DtTexts == { <<"2">> }

Init ==
    /\ planets = <<>>
    /\ dt = DtDefault
    /\ isPaused = FALSE
    /\ animating = TRUE
    /\ log = <<>>
    /\ threw = FALSE
    /\ tick = NoTick
    /\ ticks = 0
    /\ spawned = 0

\* the state a frame callback with result r leaves
AnimateResult(r) ==
    /\ planets' = r.planets
    /\ threw' = r.threw
    /\ animating' = ~r.threw
    /\ log' = r.log
    /\ tick' = r.tick

\* a frame callback: animate().  An uncaught error leaves the next frame
\* unrequested.
Animate ==
    /\ animating
    /\ isPaused \/ ticks < MaxTicks
    /\ AnimateResult(AnimateFrame(planets, isPaused, dt))
    /\ ticks' = IF isPaused THEN ticks ELSE ticks + 1
    /\ UNCHANGED <<dt, isPaused, spawned>>

\* the click listener of the spawn button, with the input elements holding req
SpawnClick(req) ==
    /\ spawned < MaxSpawns
    /\ LET r == SpawnPlanet(planets, req)
       IN  /\ planets' = r.planets
           /\ log' = r.log
           /\ spawned' = IF Len(r.planets) > Len(planets) THEN spawned + 1 ELSE spawned
    /\ threw' = FALSE
    /\ tick' = NoTick
    /\ UNCHANGED <<dt, isPaused, animating, ticks>>

Spawn == \E req \in NumericRequests \cup BadRequests : SpawnClick(req)

\* a click on the solar system button.  (Bound: the sessions explored click
\* the spawn button no more after the preset.)
SpawnSolarSystem ==
    /\ planets' = SolarSystem
    /\ log' = <<"Solar System spawned with Sun, Mercury, Venus, Earth, and Mars">>
    /\ threw' = FALSE
    /\ tick' = NoTick
    /\ spawned' = MaxSpawns
    /\ UNCHANGED <<dt, isPaused, animating, ticks>>

\* the click listener of the window, for a click at point
DeleteClick(point) ==
    /\ LET r == DeletePlanets(planets, point)
       IN  /\ planets' = r.planets
           /\ threw' = r.threw
           /\ log' = r.log
    /\ tick' = NoTick
    /\ UNCHANGED <<dt, isPaused, animating, ticks, spawned>>

Delete == \E point \in ClickPoints : DeleteClick(point)

\* a click on the reset button
Reset ==
    /\ planets' = <<>>
    /\ log' = <<"Simulation reset">>
    /\ threw' = FALSE
    /\ tick' = NoTick
    /\ UNCHANGED <<dt, isPaused, animating, ticks, spawned>>

\* an input event of the deltaTime element
SetDeltaTime ==
    \E text \in DtTexts :
        /\ dt' = ParseFloat(text)
        /\ log' = <<>>
        /\ threw' = FALSE
        /\ tick' = NoTick
        /\ UNCHANGED <<planets, isPaused, animating, ticks, spawned>>

\* a click on the play/pause button
PlayPause ==
    /\ isPaused' = ~isPaused
    /\ log' = IF isPaused' THEN <<"Simulation paused">> ELSE <<"Simulation resumed">>
    /\ threw' = FALSE
    /\ tick' = NoTick
    /\ UNCHANGED <<planets, dt, animating, ticks, spawned>>

Next ==
    \/ Animate
    \/ Spawn
    \/ SpawnSolarSystem
    \/ Delete
    \/ Reset
    \/ SetDeltaTime
    \/ PlayPause

Spec == Init /\ [][Next]_vars

(***************************************************************************)
(* The same program over longer runs of fewer bodies: up to MaxTrailSpawns *)
(* spawned bodies or the preset, and up to MaxTrailTicks ticks, which is   *)
(* longer than a trail entry lives.                                        *)
(***************************************************************************)
\* a frame callback: animate()
TrailAnimate ==
    /\ animating
    /\ isPaused \/ ticks < MaxTrailTicks
    /\ AnimateResult(AnimateFrame(planets, isPaused, dt))
    /\ ticks' = IF isPaused THEN ticks ELSE ticks + 1
    /\ UNCHANGED <<dt, isPaused, spawned>>

\* the click listener of the spawn button, for numeric input
TrailSpawn ==
    /\ spawned < MaxTrailSpawns
    /\ \E req \in NumericRequests : SpawnClick(req)

TrailNext ==
    \/ TrailAnimate
    \/ TrailSpawn
    \/ SpawnSolarSystem
    \/ SetDeltaTime
    \/ PlayPause

TrailSpec == Init /\ [][TrailNext]_vars

(***************************************************************************)
(* The claims.  `tick.trace` lists the calls of the last frame callback in *)
(* the order they were made; ids are the objects' ids within that tick.    *)
(***************************************************************************)
Trace == tick.trace
Merges == { i \in 1..Len(Trace) : Trace[i].type = "merge" }
Gravities == { i \in 1..Len(Trace) : Trace[i].type = "gravity" }
Integrations == { i \in 1..Len(Trace) : Trace[i].type = "integrate" }
Holds(arr, e) == \E k \in 1..Len(arr) : arr[k] = e

\* the array `arr` without b and with c in the place of a
ReplacedInPlace(arr, a, b, c) ==
    LET kept == SelectSeq(arr, LAMBDA e : e # b)
    IN  [k \in 1..Len(kept) |-> IF kept[k] = a THEN c ELSE kept[k]]

\* C1: whenever checkCollision(a, b) merges while a and b are both in the
\* array, afterwards b is gone, the merged body stands in a's place, every
\* other body is still there in its order, and the array is one shorter,
\* whatever the order of a and b in the array.
C1_MergeReplacesInPlace ==
    \A i \in Merges :
        (Holds(Trace[i].before, Trace[i].this) /\ Holds(Trace[i].before, Trace[i].other))
            => Trace[i].after = ReplacedInPlace(Trace[i].before, Trace[i].this,
                                                Trace[i].other, Trace[i].fused)

\* C2: when checkCollision(a, b) finds the distance test satisfied while a or
\* b is no longer in the array, the call leaves the array as it is (and so no
\* body merges a second time in the tick).
C2_StaleMergeIsNoOp ==
    \A i \in Merges :
        (~Holds(Trace[i].before, Trace[i].this) \/ ~Holds(Trace[i].before, Trace[i].other))
            => Trace[i].after = Trace[i].before

\* C3: within one tick no applyGravity call reads the position of a body
\* whose position has already been advanced in that tick.
C3_GravityBeforeIntegration ==
    \A i \in Integrations : \A j \in Gravities :
        i < j => Trace[i].this \notin {Trace[j].this, Trace[j].other}

\* C4: over one full tick, any two bodies that are in the array receive
\* exactly one applyGravity update from each other.
C4_EveryPairOnce ==
    (tick.ran /\ ~threw) =>
        \A p \in 1..Len(tick.final) : \A q \in 1..Len(tick.final) :
            p # q => Cardinality({ j \in Gravities : /\ Trace[j].this = tick.final[p]
                                                     /\ Trace[j].other = tick.final[q] }) = 1

\* C5: every frame callback runs its loop to the end and requests the next
\* frame; no merge makes it raise an error and stop the animation.
C5_AnimateKeepsTicking == animating

\* the bodies deletePlanets(x, y) is to leave: those farther from the point
\* than their radius + 10
InRange(p, ps, point) == Leq(GetDist(point, GetPosition(p, ps)), Add(p.radius, DeleteTolerance))
OutOfRange(ps, point) == SelectSeq(ps, LAMBDA p : ~InRange(p, ps, point))

\* C6: one deletePlanets(x, y) call removes exactly the bodies within
\* radius + 10 of the point, wherever they stand in the array, and raises no
\* error.
C6_DeleteRemovesBodiesInRange ==
    [][\A point \in ClickPoints :
           DeleteClick(point) => (~threw' /\ planets' = OutOfRange(planets, point))]_vars

\* C7: every body in the array has mass > 0.
C7_MassPositive == \A i \in 1..Len(planets) : planets[i].mass > 0

\* C8: a frame callback while paused leaves the array, every body's fields
\* and trail, and dt as they are; a frame callback while not paused performs
\* a tick that advances every body it updates by its velocity times the
\* current dt.
IntegratedWith(t, d) ==
    \A i \in 1..Len(t.trace) :
        t.trace[i].type = "integrate" =>
            /\ t.trace[i].to.x = Add(t.trace[i].from.x, Mul(t.trace[i].velocity.x, d))
            /\ t.trace[i].to.y = Add(t.trace[i].from.y, Mul(t.trace[i].velocity.y, d))

C8_PauseFreezesState ==
    [][tick'.frame =>
           IF isPaused
           THEN ~tick'.ran /\ planets' = planets /\ dt' = dt /\ isPaused' = isPaused
           ELSE /\ tick'.ran
                /\ IntegratedWith(tick', dt)
                /\ planets # <<>> => \E i \in 1..Len(tick'.trace) : tick'.trace[i].type = "integrate"]_vars

\* a frame callback has run while paused, on bodies that have moved before
C8_Witness ==
    /\ isPaused
    /\ tick.frame
    /\ \E i \in 1..Len(planets) : planets[i].trail # <<>>

\* C9: a spawn click with a field that is not a number creates no body and
\* changes neither the array, dt nor the pause flag; it writes its message.
NonNumeric(req) == \E f \in Fields : IsNaN(ParseFloat(req[f]))

C9_InvalidSpawnChangesNothing ==
    [][\A req \in NumericRequests \cup BadRequests :
           (NonNumeric(req) /\ SpawnClick(req)) =>
               /\ planets' = planets
               /\ dt' = dt
               /\ isPaused' = isPaused
               /\ animating' = animating
               /\ log' = <<"Invalid input! Please enter valid numbers.">>]_vars

\* an invalid spawn click has been handled with bodies in the array
C9_Witness ==
    /\ log = <<"Invalid input! Please enter valid numbers.">>
    /\ planets # <<>>

\* C10: every merged body has mass a.mass + b.mass, stands at the
\* mass-weighted centroid of a and b, and has an empty trail.
AtCentroid(c, a, b, m) ==
    /\ IsFinite(c)
    /\ Abs(c * m - (a.at * a.mass + b.at * b.mass)) < Abs(m)

C10_FusedBody ==
    \A i \in Merges :
        LET a == Trace[i].a
            b == Trace[i].b
            c == Trace[i].c
        IN  /\ c.mass = a.mass + b.mass
            /\ AtCentroid(c.x, [at |-> a.x, mass |-> a.mass], [at |-> b.x, mass |-> b.mass], c.mass)
            /\ AtCentroid(c.y, [at |-> a.y, mass |-> a.mass], [at |-> b.y, mass |-> b.mass], c.mass)
            /\ c.trail = <<>>

\* the sum of the masses of the bodies of the array ps
RECURSIVE TotalMass(_)
TotalMass(ps) == IF ps = <<>> THEN 0 ELSE Add(Head(ps).mass, TotalMass(Tail(ps)))

\* C11: a frame callback that runs a tick leaves the sum of the masses of the
\* bodies in the array as it was before the tick, whatever collisions the
\* tick resolves.
C11_TickConservesMass ==
    [][tick'.ran => TotalMass(planets') = TotalMass(planets)]_vars

\* C12: after every update() of a body, every entry of its trail has a life
\* strictly between 0 and the full life, the entry appended in the update is
\* one fadeSpeed below the full life, the lives do not decrease from the
\* front to the back, and the trail holds at most (full life / fadeSpeed)
\* entries, however many ticks have run.
C12_TrailBounded ==
    \A i \in Integrations :
        LET trail == Trace[i].trail
        IN  /\ \A k \in 1..Len(trail) : trail[k].life > 0 /\ trail[k].life < LifeFull
            /\ trail # <<>> /\ trail[Len(trail)].life = LifeFull - FadeSpeed
            /\ \A k \in 1..(Len(trail) - 1) : trail[k].life <= trail[k + 1].life
            /\ Len(trail) * FadeSpeed <= LifeFull

\* an update() has appended an entry to a trail that was as long as a trail
\* gets, and has shifted the obsolete front entry out
C12_Witness ==
    \E i \in Integrations :
        /\ Len(Trace[i].trailBefore) = Len(Trace[i].trail)
        /\ Len(Trace[i].trail) > 1

(***************************************************************************)
(* The tick claims again for ticks in which every body has positive mass,  *)
(* that is, for ticks that no spawn of a non-positive mass has touched.    *)
(***************************************************************************)
PositiveTick ==
    /\ \A i \in 1..Len(planets) : planets[i].mass > 0
    /\ \A i \in Merges : Trace[i].a.mass > 0 /\ Trace[i].b.mass > 0

MergeReplacesInPlace_PositiveTick == PositiveTick => C1_MergeReplacesInPlace
StaleMergeIsNoOp_PositiveTick == PositiveTick => C2_StaleMergeIsNoOp
GravityBeforeIntegration_PositiveTick == PositiveTick => C3_GravityBeforeIntegration
EveryPairOnce_PositiveTick == PositiveTick => C4_EveryPairOnce
AnimateKeepsTicking_PositiveTick == PositiveTick => C5_AnimateKeepsTicking
FusedBody_PositiveTick == PositiveTick => C10_FusedBody
TickConservesMass_PositiveTick ==
    [][(tick'.ran /\ PositiveTick') => TotalMass(planets') = TotalMass(planets)]_vars

====
